---- MODULE Spec2Model ----
(***************************************************************************)
(* Model of wf/__init__.py of latch-fastqc: the task fastqc_task, which    *)
(* queries the FASTQC version, creates the staging directory, builds the   *)
(* fastqc command line from its arguments, resolves the input references,  *)
(* filters falsy tokens, reports the command and executes it.              *)
(*                                                                         *)
(* One run of fastqc_task is one behaviour: Init fixes the arguments of    *)
(* the call and the environment, every later step is one statement (or     *)
(* one external call) of the function body, and every external call may    *)
(* succeed or raise.  An exception is never caught in fastqc_task, so it   *)
(* ends the run (pc = "failed").                                           *)
(***************************************************************************)
EXTENDS Integers, Sequences, FiniteSets, TLC

VARIABLES
    input_files,    \* argument: sequence of file/directory references
    output_folder,  \* argument: remote path of the output LatchDir
    casava, nano, nofilter, extract, nogroup,   \* arguments: bool
    min_length,     \* argument: Optional[int]      (None or Some(n))
    fmt,            \* argument: Optional[Format]   (None or Some(member name))
    contaminants, adapters, limits,  \* arguments: Optional[LatchFile]
    kmers,          \* argument: int
    affinity,       \* environment: len(os.sched_getaffinity(0))
    dirExists,      \* environment: does /root/fastqc exist
    pc,             \* the statement fastqc_task executes next
    fastqc_version, \* local
    threads,        \* local
    cmd,            \* local: sequence of tokens
    resolved,       \* number of input references latch2local has resolved
    messages,       \* what message() has been called with, in order
    executed,       \* the command lines the analyzer process was started with
    ret,            \* the returned LatchDir (None until the return)
    error,          \* the exception that ended the run ("none" if none)
    failed_at,      \* the statement that raised it ("" if none)
    trace           \* the statements that completed, in order

args == <<input_files, output_folder, casava, nano, nofilter, extract, nogroup,
          min_length, fmt, contaminants, adapters, limits, kmers>>

env == <<affinity>>

vars == <<args, env, dirExists, pc, fastqc_version, threads, cmd, resolved,
          messages, executed, ret, error, failed_at, trace>>

----------------------------------------------------------------------------
(* Bounds of the model. *)

MaxInputs == 2
MaxMinLength == 36

(* The Kmer range the parameter description documents. *)
KmersLow == 2
KmersHigh == 10

----------------------------------------------------------------------------
(* Python values. *)

None == <<>>
Some(v) == <<v>>

\* A list element: a str, an int or a LatchFile object.
StrTok(s) == [type |-> "str", s |-> s, n |-> 0]
IntTok(n) == [type |-> "int", s |-> "", n |-> n]
FileTok(r) == [type |-> "LatchFile", s |-> r, n |-> 0]

\* bool(e) of a list element: "" and 0 are falsy, an object is truthy.
PyTruthy(e) ==
    CASE e.type = "str" -> e.s # ""
      [] e.type = "int" -> e.n # 0
      [] OTHER -> TRUE

DigitChars == <<"0", "1", "2", "3", "4", "5", "6", "7", "8", "9">>

RECURSIVE NatStr(_)
NatStr(n) ==
    IF n < 10 THEN DigitChars[n + 1]
    ELSE NatStr(n \div 10) \o DigitChars[(n % 10) + 1]

\* str(n) of an int.
PyStr(n) == IF n < 0 THEN "-" \o NatStr(-n) ELSE NatStr(n)

\* The members of the enum Format and the value of each.
FormatMembers == {"fastq", "bam", "sam", "bam_mapped", "sam_mapped"}

\* As FormatValue, with the mapped variants losing their suffix.
FormatValueUnmapped(member) ==
    CASE member = "fastq" -> "fastq"
      [] member = "bam" -> "bam"
      [] member = "sam" -> "sam"
      [] member = "bam_mapped" -> "bam"
      [] member = "sam_mapped" -> "sam"

FormatValue(member) ==
    CASE member = "fastq" -> "fastq"
      [] member = "bam" -> "bam"
      [] member = "sam" -> "sam"
      [] member = "bam_mapped" -> "bam_mapped"
      [] member = "sam_mapped" -> "sam_mapped"

fqc_output_folder == "/root/fastqc"

\* The stdout of `fastqc --version`, split at " ".
VersionStdout == <<"FastQC", "v0.11.9">>

----------------------------------------------------------------------------
(* The collaborators of wf.helper. *)

InputRefs == {"latch:///a.fastq", "latch:///b.fastq"}
FileRefs == {"latch:///contaminants.txt", "latch:///adapters.txt", "latch:///limits.txt"}

\* latch2local: the local path a reference resolves to.
latch2local(r) ==
    CASE r = "latch:///a.fastq" -> "/a.fastq"
      [] r = "latch:///b.fastq" -> "/b.fastq"
      [] r = "latch:///contaminants.txt" -> "/contaminants.txt"
      [] r = "latch:///adapters.txt" -> "/adapters.txt"
      [] r = "latch:///limits.txt" -> "/limits.txt"
----------------------------------------------------------------------------
(* The statements of fastqc_task. *)

\* "--flag" if option else ""
BoolFlag(flag, option) == IF option THEN StrTok(flag) ELSE StrTok("")

\* *(["--flag", value] if value else []) for an Optional[int]
IntPair(flag, opt) ==
    IF opt # None /\ opt[1] # 0 THEN <<StrTok(flag), IntTok(opt[1])>> ELSE <<>>

\* *(["--format", fmt.value] if fmt else []): an Enum member is truthy
FormatPair(flag, opt) ==
    IF opt # None THEN <<StrTok(flag), StrTok(FormatValue(opt[1]))>> ELSE <<>>

\* *(["--flag", file] if file else []): a LatchFile object is truthy, and it
\* is the object itself that is put in the list
FilePair(flag, opt) ==
    IF opt # None THEN <<StrTok(flag), FileTok(opt[1])>> ELSE <<>>

\* The list display assigned to cmd.
CmdLiteral(t) ==
    << StrTok("fastqc"), StrTok("--threads"), StrTok(t),
       StrTok("--outdir"), StrTok(fqc_output_folder),
       BoolFlag("--casava", casava),
       BoolFlag("--nano", nano),
       BoolFlag("--nofilter", nofilter),
       BoolFlag("--extract", extract),
       BoolFlag("--nogroup", nogroup) >>
    \o IntPair("--minlength", min_length)
    \o FormatPair("--format", fmt)
    \o FilePair("--contaminants", contaminants)
    \o FilePair("--adapters", adapters)
    \o FilePair("--limits", limits)
    \o IntPair("--kmers", Some(kmers))

\* As FilterFalsy, with the filter left out.
FilterFalsyKeepsAll(c) == c

\* [e for e in cmd if e]
FilterFalsy(c) == SelectSeq(c, PyTruthy)

\* str.join raises TypeError unless every item is a str.
AllStr(c) == \A i \in 1..Len(c) : c[i].type = "str"

RECURSIVE JoinStr(_)
JoinStr(c) ==
    IF Len(c) = 0 THEN ""
    ELSE IF Len(c) = 1 THEN c[1].s
    ELSE c[1].s \o " " \o JoinStr(Tail(c))

Message(typ, title, body) == [typ |-> typ, title |-> title, body |-> body]

\* An exception leaves fastqc_task: nothing in it catches one.
Raise(exc) ==
    /\ pc' = "failed"
    /\ error' = exc
    /\ failed_at' = pc

Goto(next) ==
    /\ pc' = next
    /\ trace' = Append(trace, pc)
    /\ UNCHANGED <<error, failed_at>>

\* subprocess.run(["fastqc", "--version"], check=True, ...) and the split
QueryVersion ==
    /\ pc = "version"
    /\ fastqc_version' = VersionStdout[Len(VersionStdout)]
    /\ Goto("msg_version")
    /\ UNCHANGED <<args, env, dirExists, threads, cmd, resolved, messages,
                   executed, ret>>

\* As QueryVersionFails, with check=True left out: the run goes on.
QueryVersionUnchecked ==
    /\ pc = "version"
    /\ pc' = "msg_version"
    /\ UNCHANGED <<args, env, dirExists, fastqc_version, threads, cmd, resolved,
                   messages, executed, ret, error, failed_at, trace>>

\* check=True: a non-zero exit or a missing executable raises
QueryVersionFails ==
    /\ pc = "version"
    /\ Raise("CalledProcessError")
    /\ UNCHANGED <<args, env, dirExists, fastqc_version, threads, cmd, resolved,
                   messages, executed, ret, trace>>

\* message(typ="info", data={"title": "FASTQC version", ...}) and the print
NotifyVersion ==
    /\ pc = "msg_version"
    /\ messages' = Append(messages, Message("info", "FASTQC version", fastqc_version))
    /\ Goto("makedirs")
    /\ UNCHANGED <<args, env, dirExists, fastqc_version, threads, cmd, resolved,
                   executed, ret>>

NotifyVersionFails ==
    /\ pc = "msg_version"
    /\ Raise("MessageError")
    /\ UNCHANGED <<args, env, dirExists, fastqc_version, threads, cmd, resolved,
                   messages, executed, ret, trace>>

\* threads = str(len(os.sched_getaffinity(0))); os.makedirs(fqc_output_folder)
MakeStagingDir ==
    /\ pc = "makedirs"
    /\ ~dirExists
    /\ threads' = PyStr(affinity)
    /\ dirExists' = TRUE
    /\ Goto("build")
    /\ UNCHANGED <<args, env, fastqc_version, cmd, resolved, messages, executed, ret>>

\* os.makedirs without exist_ok raises when the directory exists
MakeStagingDirFails ==
    /\ pc = "makedirs"
    /\ dirExists
    /\ threads' = PyStr(affinity)
    /\ Raise("FileExistsError")
    /\ UNCHANGED <<args, env, dirExists, fastqc_version, cmd, resolved, messages,
                   executed, ret, trace>>

\* As BuildCmd, with the list built before (and instead of) os.makedirs.
BuildCmdWithoutStagingDir ==
    /\ pc \in {"makedirs", "build"}
    /\ cmd' = CmdLiteral(PyStr(affinity))
    /\ threads' = PyStr(affinity)
    /\ pc' = IF Len(input_files) = 0 THEN "filter" ELSE "extend"
    /\ trace' = Append(trace, "build")
    /\ UNCHANGED <<args, env, dirExists, fastqc_version, resolved, messages,
                   executed, ret, error, failed_at>>

\* cmd = [ ... ]
BuildCmd ==
    /\ pc = "build"
    /\ cmd' = CmdLiteral(threads)
    /\ Goto(IF Len(input_files) = 0 THEN "filter" ELSE "extend")
    /\ UNCHANGED <<args, env, dirExists, fastqc_version, threads, resolved, messages,
                   executed, ret>>

\* cmd.extend(latch2local(f) for f in input_files): one reference per step
ResolveInput ==
    /\ pc = "extend"
    /\ resolved < Len(input_files)
    /\ cmd' = Append(cmd, StrTok(latch2local(input_files[resolved + 1])))
    /\ resolved' = resolved + 1
    /\ IF resolved + 1 = Len(input_files)
       THEN Goto("filter")
       ELSE UNCHANGED <<pc, trace, error, failed_at>>
    /\ UNCHANGED <<args, env, dirExists, fastqc_version, threads, messages, executed, ret>>

ResolveInputFails ==
    /\ pc = "extend"
    /\ resolved < Len(input_files)
    /\ Raise("ResolveError")
    /\ UNCHANGED <<args, env, dirExists, fastqc_version, threads, cmd, resolved,
                   messages, executed, ret, trace>>

\* cmd = [e for e in cmd if e]
FilterCmd ==
    /\ pc = "filter"
    /\ cmd' = FilterFalsy(cmd)
    /\ Goto("msg_cmd")
    /\ UNCHANGED <<args, env, dirExists, fastqc_version, threads, resolved, messages,
                   executed, ret>>

\* As NotifyCommand, with the call of message() left out.
NotifyCommandSkipped ==
    /\ pc = "msg_cmd"
    /\ AllStr(cmd)
    /\ Goto("execute")
    /\ UNCHANGED <<args, env, dirExists, fastqc_version, threads, cmd, resolved,
                   messages, executed, ret>>

\* message(typ="info", data={..., "body": f"Command: {' '.join(cmd)}"})
NotifyCommand ==
    /\ pc = "msg_cmd"
    /\ AllStr(cmd)
    /\ messages' = Append(messages,
                          Message("info", "Running FASTQC", "Command: " \o JoinStr(cmd)))
    /\ Goto("execute")
    /\ UNCHANGED <<args, env, dirExists, fastqc_version, threads, cmd, resolved,
                   executed, ret>>

\* ' '.join(cmd) with an int or a LatchFile in cmd
JoinRaises ==
    /\ pc = "msg_cmd"
    /\ ~AllStr(cmd)
    /\ Raise("TypeError")
    /\ UNCHANGED <<args, env, dirExists, fastqc_version, threads, cmd, resolved,
                   messages, executed, ret, trace>>

NotifyCommandFails ==
    /\ pc = "msg_cmd"
    /\ AllStr(cmd)
    /\ Raise("MessageError")
    /\ UNCHANGED <<args, env, dirExists, fastqc_version, threads, cmd, resolved,
                   messages, executed, ret, trace>>

\* execute_cmd(cmd, capture_stdout=True, capture_stderr=True), exit code 0
ExecuteCmd ==
    /\ pc = "execute"
    /\ executed' = Append(executed, cmd)
    /\ Goto("return")
    /\ UNCHANGED <<args, env, dirExists, fastqc_version, threads, cmd, resolved,
                   messages, ret>>

\* the analyzer ran and exited with a non-zero code
ExecuteCmdFails ==
    /\ pc = "execute"
    /\ executed' = Append(executed, cmd)
    /\ Raise("ProcessExecutionError")
    /\ UNCHANGED <<args, env, dirExists, fastqc_version, threads, cmd, resolved,
                   messages, ret, trace>>

\* the analyzer could not be started
ExecuteCmdLaunchFails ==
    /\ pc = "execute"
    /\ Raise("ProcessLaunchError")
    /\ UNCHANGED <<args, env, dirExists, fastqc_version, threads, cmd, resolved,
                   messages, executed, ret, trace>>

\* return LatchDir(path=fqc_output_folder, remote_path=output_folder.remote_path)
ReturnArtifact ==
    /\ pc = "return"
    /\ ret' = Some([path |-> fqc_output_folder, remote_path |-> output_folder])
    /\ Goto("done")
    /\ UNCHANGED <<args, env, dirExists, fastqc_version, threads, cmd, resolved,
                   messages, executed>>

Next ==
    \/ QueryVersion
    \/ QueryVersionFails
    \/ NotifyVersion
    \/ NotifyVersionFails
    \/ MakeStagingDir
    \/ MakeStagingDirFails
    \/ BuildCmd
    \/ ResolveInput
    \/ ResolveInputFails
    \/ FilterCmd
    \/ NotifyCommand
    \/ JoinRaises
    \/ NotifyCommandFails
    \/ ExecuteCmd
    \/ ExecuteCmdFails
    \/ ExecuteCmdLaunchFails
    \/ ReturnArtifact

----------------------------------------------------------------------------
(* The calls of fastqc_task the specifications start from. *)

RECURSIVE SeqsUpTo(_, _)
SeqsUpTo(S, n) ==
    IF n = 0 THEN {<<>>}
    ELSE LET shorter == SeqsUpTo(S, n - 1)
         IN  shorter \cup {Append(q, x) : q \in {r \in shorter : Len(r) = n - 1}, x \in S}

Optional(S) == {None} \cup {Some(x) : x \in S}

AllFlags == [casava : BOOLEAN, nano : BOOLEAN, nofilter : BOOLEAN,
             extract : BOOLEAN, nogroup : BOOLEAN]

SomeFlags == {f \in AllFlags :
                \/ ~(f.casava \/ f.nano \/ f.nofilter \/ f.extract \/ f.nogroup)
                \/ (f.extract /\ ~(f.casava \/ f.nano \/ f.nofilter \/ f.nogroup))
                \/ (f.casava /\ f.nano /\ f.nofilter /\ f.extract /\ f.nogroup)}

MinLengths == Optional({-1, 0, MaxMinLength})
AllKmers == (KmersLow - 3) .. (KmersHigh + 1)
SomeKmers == {0, 7, KmersHigh + 1}
InputLists == SeqsUpTo(InputRefs, MaxInputs)
OutputFolders == {"latch:///fastqc_out", "latch:///qc/run1"}

\* The state at the entry of fastqc_task.
InitWith(flagSet, minLengthSet, fmtSet, fileSet, kmerSet, affinitySet) ==
    /\ input_files \in InputLists
    /\ output_folder \in OutputFolders
    /\ \E f \in flagSet :
          /\ casava = f.casava
          /\ nano = f.nano
          /\ nofilter = f.nofilter
          /\ extract = f.extract
          /\ nogroup = f.nogroup
    /\ min_length \in minLengthSet
    /\ fmt \in fmtSet
    /\ contaminants \in Optional({"latch:///contaminants.txt"} \cap fileSet)
    /\ adapters \in Optional({"latch:///adapters.txt"} \cap fileSet)
    /\ limits \in Optional({"latch:///limits.txt"} \cap fileSet)
    /\ kmers \in kmerSet
    /\ affinity \in affinitySet
    /\ dirExists \in BOOLEAN
    /\ pc = "version"
    /\ fastqc_version = ""
    /\ threads = ""
    /\ cmd = <<>>
    /\ resolved = 0
    /\ messages = <<>>
    /\ executed = <<>>
    /\ ret = None
    /\ error = "none"
    /\ failed_at = ""
    /\ trace = <<>>

Init == InitWith(SomeFlags, MinLengths, Optional({"bam_mapped"}), FileRefs,
                 SomeKmers, {1, 12})

Spec == Init /\ [][Next]_vars

\* Every combination of the boolean options.
InitFlags == InitWith(AllFlags, Optional({MaxMinLength}), Optional({"bam"}),
                      {"latch:///contaminants.txt"}, {0, 7}, {1})

SpecFlags == InitFlags /\ [][Next]_vars

\* Every format.
InitFormat == InitWith(SomeFlags, Optional({MaxMinLength}), Optional(FormatMembers),
                       {"latch:///adapters.txt"}, {0, 7}, {1})

SpecFormat == InitFormat /\ [][Next]_vars

\* Every Kmer length around the documented range.
InitKmers == InitWith(SomeFlags, Optional({MaxMinLength}), Optional({"fastq"}),
                      {}, AllKmers, {1})

SpecKmers == InitKmers /\ [][Next]_vars
----------------------------------------------------------------------------
(* Vocabulary of the properties. *)

Completed(step) == \E i \in 1..Len(trace) : trace[i] = step

\* cmd is the command line as built: the filter of falsy tokens has run.
Built == Completed("filter")

Index(c, tok) == {i \in 1..Len(c) : c[i] = tok}

BoolFlagNames == {"--casava", "--nano", "--nofilter", "--extract", "--nogroup"}

IsBoolFlag(e) == e.type = "str" /\ e.s \in BoolFlagNames

Present(flag, option) == IF option THEN <<StrTok(flag)>> ELSE <<>>

\* The boolean flags whose option is true, in the declared order.
TrueFlags ==
    Present("--casava", casava) \o Present("--nano", nano)
    \o Present("--nofilter", nofilter) \o Present("--extract", extract)
    \o Present("--nogroup", nogroup)

\* The resolved input paths, in the caller's order.
InputPaths == [i \in 1..Len(input_files) |-> StrTok(latch2local(input_files[i]))]

\* C1: once the command line is built, its boolean flags are exactly those
\* whose option is true, each once and in the declared order, and no token
\* of it is the empty string.
C1_ExactBoolFlags ==
    Built =>
        /\ SelectSeq(cmd, IsBoolFlag) = TrueFlags
        /\ \A i \in 1..Len(cmd) : cmd[i] # StrTok("")

C1_Witness ==
    /\ Built
    /\ casava /\ ~nano /\ nofilter /\ ~extract /\ nogroup
    /\ Len(cmd) >= 8

\* C5: once the command line is built, a present format appears as --format
\* immediately followed by the external string of that variant (bam_mapped
\* and sam_mapped in underscore form, the five strings distinct), and an
\* absent format leaves no --format token.  (A variant is named here by its
\* external string: fmt = Some("bam_mapped") is the "bam mapped" variant.)
C5_FormatFlag ==
    Built =>
        /\ fmt = None => Index(cmd, StrTok("--format")) = {}
        /\ fmt # None =>
              \E i \in 1..(Len(cmd) - 1) :
                  /\ Index(cmd, StrTok("--format")) = {i}
                  /\ cmd[i + 1].type = "str"
                  /\ cmd[i + 1].s \in {"fastq", "bam", "sam", "bam_mapped", "sam_mapped"}
                  /\ cmd[i + 1].s = fmt[1]
                  /\ \A other \in FormatMembers \ {fmt[1]} :
                         FormatValue(other) # cmd[i + 1].s

C5_Witness ==
    /\ Built
    /\ fmt = Some("bam_mapped")
    /\ \E i \in 1..(Len(cmd) - 1) :
          cmd[i] = StrTok("--format") /\ cmd[i + 1] = StrTok("bam_mapped")
\* C8: an artifact is returned only by a run all of whose steps succeeded
\* (version query, staging directory, every input resolved, command built,
\* analyzer executed once), and it is the staging directory bound to the
\* caller's output_folder; a run that failed has raised its exception, has
\* returned nothing, and takes no further step (nothing is retried).
C8_AllOrNothing ==
    /\ ret # None =>
          /\ pc = "done"
          /\ error = "none"
          /\ Completed("version") /\ Completed("makedirs") /\ Completed("build")
          /\ Completed("filter") /\ Completed("execute")
          /\ dirExists
          /\ resolved = Len(input_files)
          /\ Len(executed) = 1
          /\ ret = Some([path |-> "/root/fastqc", remote_path |-> output_folder])
    /\ pc = "done" => ret # None
    /\ pc = "failed" <=> error # "none"
    /\ pc = "failed" => ret = None /\ ~ENABLED Next
    /\ Len(executed) <= 1
    /\ \A i, j \in 1..Len(trace) : trace[i] = trace[j] => i = j

C8_Witness ==
    /\ pc = "done"
    /\ ret = Some([path |-> "/root/fastqc", remote_path |-> "latch:///qc/run1"])
    /\ Len(input_files) = 2

\* C9 as stated: the inputs are resolved before the staging directory is
\* created, the directory before the command is built, the command before
\* the analyzer runs; a failed resolution leaves no staging directory, a
\* failed creation of the directory no execution.
C9_ResolveBeforeStaging ==
    /\ Completed("makedirs") => resolved = Len(input_files)
    /\ Completed("build") => Completed("makedirs")
    /\ executed # <<>> => Built
    /\ failed_at = "extend" => ~Completed("makedirs")
    /\ failed_at = "makedirs" => executed = <<>>

\* C9 as amended: the staging directory is created first, then the option
\* tokens are built, then the inputs are resolved, then the command line is
\* filtered and the analyzer executed; a failed resolution leaves the staging
\* directory behind, a failed creation of the directory stops the run before
\* any input is resolved and before the analyzer is executed.
C9_StagingBeforeResolve ==
    /\ Completed("build") => Completed("makedirs")
    /\ (resolved > 0 \/ failed_at = "extend") => Completed("build")
    /\ Built => Completed("build") /\ resolved = Len(input_files)
    /\ executed # <<>> => Built
    /\ failed_at = "extend" => dirExists /\ Completed("makedirs") /\ executed = <<>>
    /\ failed_at = "makedirs" => resolved = 0 /\ cmd = <<>> /\ executed = <<>>

C9_Witness ==
    /\ failed_at = "extend"
    /\ resolved = 1
    /\ dirExists
    /\ Completed("makedirs")

----------------------------------------------------------------------------
(* Statements the code does not satisfy. *)

Pairs(c) == {<<c[i], c[i + 1]>> : i \in 1..(Len(c) - 1)}

KmersValid == kmers \in KmersLow..KmersHigh

\* C2: a Kmer length of 2..10 is in the built command line as --kmers
\* followed by it; with any other Kmer length no command line is built and
\* the analyzer is not executed.
C2_KmersValidated ==
    /\ (KmersValid /\ Built) =>
          \E v \in {IntTok(kmers), StrTok(PyStr(kmers))} :
              <<StrTok("--kmers"), v>> \in Pairs(cmd)
    /\ ~KmersValid => ~Completed("build") /\ executed = <<>>

\* C3: with an empty list of input files no command line is built, and the
\* analyzer is never executed with a command line without an input path.
C3_EmptyInputsRejected ==
    /\ Len(input_files) = 0 => ~Completed("build") /\ executed = <<>>
    /\ \A k \in 1..Len(executed) :
          \E i \in 1..Len(executed[k]), j \in 1..Len(InputPaths) :
              executed[k][i] = InputPaths[j]

\* C6: with a min_length that is present and not strictly positive no
\* command line is built and the analyzer is not executed; a present
\* min_length is never treated as absent.
C6_MinLengthValidated ==
    /\ (min_length # None /\ min_length[1] <= 0) =>
          ~Completed("build") /\ executed = <<>>
    /\ (min_length # None /\ Built) => Index(cmd, StrTok("--minlength")) # {}

\* The forms a flag with a value may take: nothing when the option is absent,
\* the flag and one rendering of the value when it is present.
ValueFlag(flag, opt, renderings) ==
    IF opt = None THEN {<<>>} ELSE {<<StrTok(flag), v>> : v \in renderings}

IntForms(opt) == IF opt = None THEN {} ELSE {IntTok(opt[1]), StrTok(PyStr(opt[1]))}
FileForms(opt) == IF opt = None THEN {} ELSE {FileTok(opt[1]), StrTok(latch2local(opt[1]))}
FormatForms(opt) == IF opt = None THEN {} ELSE {StrTok(opt[1])}

ShapedCommandLines ==
    { << StrTok("fastqc"), StrTok("--threads"), StrTok(PyStr(affinity)),
         StrTok("--outdir"), StrTok("/root/fastqc") >>
      \o TrueFlags \o ml \o fo \o co \o ad \o li \o km \o InputPaths :
        ml \in ValueFlag("--minlength", min_length, IntForms(min_length)),
        fo \in ValueFlag("--format", fmt, FormatForms(fmt)),
        co \in ValueFlag("--contaminants", contaminants, FileForms(contaminants)),
        ad \in ValueFlag("--adapters", adapters, FileForms(adapters)),
        li \in ValueFlag("--limits", limits, FileForms(limits)),
        km \in ValueFlag("--kmers", Some(kmers), IntForms(Some(kmers))) }

\* C4: with a non-empty input list the built command line is fastqc,
\* --threads n (n >= 1), --outdir and the staging path, the boolean flags,
\* the value flags in the fixed order, each present exactly when its option
\* is present and followed by its value, then the resolved input paths.
C4_Shape ==
    (Built /\ Len(input_files) > 0) =>
        /\ affinity >= 1
        /\ cmd \in ShapedCommandLines

ResolvedPair(flag, opt) ==
    opt # None => <<StrTok(flag), StrTok(latch2local(opt[1]))>> \in Pairs(cmd)

\* C7: every token of the built command line is a string, and each present
\* --contaminants / --adapters / --limits is followed by the resolved local
\* path of its file reference.
C7_AllTokensStrings ==
    Built =>
        /\ \A i \in 1..Len(cmd) : cmd[i].type = "str"
        /\ ResolvedPair("--contaminants", contaminants)
        /\ ResolvedPair("--adapters", adapters)
        /\ ResolvedPair("--limits", limits)

====
